---- MODULE Spec2Model ----
(***************************************************************************)
(* Model of src/operations/find_and_modify.ts: the three find-and-modify   *)
(* operations (FindOneAndDelete / FindOneAndReplace / FindOneAndUpdate),   *)
(* their constructors, and FindAndModifyOperation.execute with its         *)
(* hand-off to CommandOperation.executeCommand.                            *)
(*                                                                         *)
(* JavaScript values are records tagged with their kind; an object is the  *)
(* ordered list of its top-level keys, a key is the list of its characters.*)
(* A JavaScript object whose set of properties matters (cmdBase, cmd) is a *)
(* function whose DOMAIN is the set of properties that are present.        *)
(***************************************************************************)
EXTENDS Integers, Sequences, FiniteSets, TLC

VARIABLES
    args,     \* the arguments of the constructor call (NoArgs before it)
    op,       \* the constructed operation object (NoOp if none exists)
    thrown,   \* the error the constructor threw (NoError if none)
    phase,    \* position of the request / of the current execute() call
    calls,    \* number of execute() calls made on op
    server,   \* the server argument of the current execute() call
    sent,     \* commands handed to executeCommand by the current call
    cb,       \* callback invocations of the current call: <<[err, result]>>
    reply,    \* what executeCommand called back with in the current call
    prev      \* server and synchronous outcome of the previous call

vars == <<args, op, thrown, phase, calls, server, sent, cb, reply, prev>>

---------------------------------------------------------------------------
(* Bounds of the model *)

\* longest document (number of top-level keys) drawn as an input
MaxKeys == 2
\* highest server wire version drawn as an input
MaxWireVersion == 8
\* number of execute() calls made on one operation (first call + retries)
MaxExecutes == 2

---------------------------------------------------------------------------
(* JavaScript values *)

Undefined == [kind |-> "undefined"]
Null == [kind |-> "null"]
Bool(b) == [kind |-> "boolean", b |-> b]
Num(n) == [kind |-> "number", n |-> n]
Str(s) == [kind |-> "string", s |-> s]
Obj(keys) == [kind |-> "object", keys |-> keys]
Arr(len) == [kind |-> "array", len |-> len]

\* typeof v
TypeOf(v) ==
    CASE v.kind \in {"object", "array", "null"} -> "object"
      [] OTHER -> v.kind

\* v == null
IsNullish(v) == v.kind \in {"undefined", "null"}

\* the truthiness `if (v)` tests
Truthy(v) ==
    CASE v.kind \in {"undefined", "null"} -> FALSE
      [] v.kind = "boolean" -> v.b
      [] v.kind = "number" -> v.n # 0
      [] v.kind = "string" -> v.s # ""
      [] OTHER -> TRUE

\* obj[k] = v, adding the property if it is not there
SetProp(obj, k, v) == (k :> v) @@ obj

Has(obj, k) == k \in DOMAIN obj

NoArgs == [kind |-> "noargs"]
NoOp == [kind |-> "noop"]
NoError == [kind |-> "noerror"]
NoServer == [kind |-> "noserver"]
NoReply == [kind |-> "noreply"]
NoPrev == [kind |-> "noprev"]

---------------------------------------------------------------------------
(* Errors *)

MongoDriverError(message) == [name |-> "MongoDriverError", message |-> message]

InvalidFilter == MongoDriverError(<<"Filter parameter must be an object">>)
InvalidReplacement == MongoDriverError(<<"Replacement parameter must be an object">>)
ReplacementHasOperators ==
    MongoDriverError(<<"Replacement document must not contain atomic operators">>)
InvalidUpdate == MongoDriverError(<<"Update parameter must be an object">>)
UpdateMissingOperators ==
    MongoDriverError(<<"Update document requires atomic operators">>)
HintUnsupported ==
    MongoDriverError(<<"The current topology does not support a hint on findAndModify commands">>)
ExplainUnsupported(serverName) ==
    MongoDriverError(<<"server ", serverName, " does not support explain on findAndModify">>)
CollationConflict == MongoDriverError(<<"Current topology does not support collation">>)

---------------------------------------------------------------------------
(* Collaborators outside find_and_modify.ts *)

ReturnDocument == [BEFORE |-> "before", AFTER |-> "after"]

\* '$'-prefixed top-level key
IsOperatorKey(key) == Len(key) > 0 /\ key[1] = "$"

\* utils.hasAtomicOperators: does the document have a top-level atomic operator key
hasAtomicOperators(doc) ==
    \E i \in 1..Len(doc.keys) : IsOperatorKey(doc.keys[i])

\* sort.formatSort: the sort specification in command encoding, field order kept;
\* undefined when no sort is given
SortDirection(dir) ==
    CASE dir \in {"asc", "ascending", "1"} -> 1
      [] dir \in {"desc", "descending", "-1"} -> -1
formatSort(sort) ==
    IF sort.kind = "undefined" THEN Undefined
    ELSE [kind |-> "sortForCmd",
          entries |-> [i \in 1..Len(sort.entries) |->
                         <<sort.entries[i][1], SortDirection(sort.entries[i][2])>>]]

\* utils.maxWireVersion
maxWireVersion(srv) == srv.maxWireVersion

\* utils.decorateWithCollation: adds options.collation to the command, or throws
\* when the collection's topology cannot take it
decorateWithCollation(cmd, coll, options) ==
    IF options.collation.kind = "object"
    THEN IF coll.commandsTakeCollation
         THEN [threw |-> FALSE, cmd |-> SetProp(cmd, "collation", options.collation)]
         ELSE [threw |-> TRUE, err |-> CollationConflict]
    ELSE [threw |-> FALSE, cmd |-> cmd]

\* CommandOperation constructor: the resolved write concern and the explain flag
CommandOperation(collection, options, resolved) ==
    [writeConcern |-> resolved, explain |-> Truthy(options.explain)]

---------------------------------------------------------------------------
(* find_and_modify.ts *)

\* variant: `new` set unless returnDocument is 'before'
configureUpdateOpts_NotBefore(cmdBase, options) ==
    LET c1 == SetProp(cmdBase, "new",
                      options.returnDocument # Str(ReturnDocument.BEFORE))
        c2 == SetProp(c1, "upsert", options.upsert = Bool(TRUE))
    IN IF options.bypassDocumentValidation = Bool(TRUE)
       THEN SetProp(c2, "bypassDocumentValidation", options.bypassDocumentValidation)
       ELSE c2

configureFindAndModifyCmdBaseUpdateOpts(cmdBase, options) ==
    LET c1 == SetProp(cmdBase, "new",
                      options.returnDocument = Str(ReturnDocument.AFTER))
        c2 == SetProp(c1, "upsert", options.upsert = Bool(TRUE))
    IN IF options.bypassDocumentValidation = Bool(TRUE)
       THEN SetProp(c2, "bypassDocumentValidation", options.bypassDocumentValidation)
       ELSE c2

\* variant: the base constructor copies arrayFilters for every variant
FindAndModifyOperation_ArrayFilters(collection, query, options, resolved) ==
    LET base == CommandOperation(collection, options, resolved)
        c0 == [remove |-> FALSE, new |-> FALSE, upsert |-> FALSE]
        c1 == IF Truthy(options.arrayFilters)
              THEN SetProp(c0, "arrayFilters", options.arrayFilters) ELSE c0
    IN [kind |-> "operation",
        options |-> options,
        cmdBase |-> c1,
        readPreference |-> "primary",
        collection |-> collection,
        query |-> query,
        writeConcern |-> base.writeConcern,
        explain |-> base.explain]

\* class FindAndModifyOperation: constructor
FindAndModifyOperation(collection, query, options, resolved) ==
    LET base == CommandOperation(collection, options, resolved)
        c0 == [remove |-> FALSE, new |-> FALSE, upsert |-> FALSE]
        sort == formatSort(options.sort)
        c1 == IF Truthy(sort) THEN SetProp(c0, "sort", sort) ELSE c0
        c2 == IF Truthy(options.projection)
              THEN SetProp(c1, "fields", options.projection) ELSE c1
        c3 == IF Truthy(options.maxTimeMS)
              THEN SetProp(c2, "maxTimeMS", options.maxTimeMS) ELSE c2
        c4 == IF Truthy(options.writeConcern)
              THEN SetProp(c3, "writeConcern", options.writeConcern) ELSE c3
    IN [kind |-> "operation",
        options |-> options,
        cmdBase |-> c4,
        readPreference |-> "primary",
        collection |-> collection,
        query |-> query,
        writeConcern |-> base.writeConcern,
        explain |-> base.explain]

Threw(err) == [threw |-> TRUE, err |-> err]
Built(o) == [threw |-> FALSE, op |-> o]

\* variant: only the null check, no typeof check
FilterRejected_NullOnly(filter) == IsNullish(filter)

\* the filter validation every subclass constructor starts with
FilterRejected(filter) == IsNullish(filter) \/ TypeOf(filter) # "object"

\* class FindOneAndDeleteOperation: constructor
FindOneAndDeleteOperation(collection, filter, options, resolved) ==
    IF FilterRejected(filter) THEN Threw(InvalidFilter)
    ELSE LET o == FindAndModifyOperation(collection, filter, options, resolved)
         IN Built([o EXCEPT !.cmdBase = SetProp(@, "remove", TRUE)])

\* variant: a non-object replacement reported as an operator violation
FindOneAndReplaceOperation_OneError(collection, filter, replacement, options, resolved) ==
    IF FilterRejected(filter) THEN Threw(InvalidFilter)
    ELSE IF IsNullish(replacement) \/ TypeOf(replacement) # "object"
    THEN Threw(ReplacementHasOperators)
    ELSE IF hasAtomicOperators(replacement) THEN Threw(ReplacementHasOperators)
    ELSE LET o == FindAndModifyOperation(collection, filter, options, resolved)
             c1 == SetProp(o.cmdBase, "update", replacement)
         IN Built([o EXCEPT !.cmdBase =
                     configureFindAndModifyCmdBaseUpdateOpts(c1, options)])

\* class FindOneAndReplaceOperation: constructor
FindOneAndReplaceOperation(collection, filter, replacement, options, resolved) ==
    IF FilterRejected(filter) THEN Threw(InvalidFilter)
    ELSE IF IsNullish(replacement) \/ TypeOf(replacement) # "object"
    THEN Threw(InvalidReplacement)
    ELSE IF hasAtomicOperators(replacement) THEN Threw(ReplacementHasOperators)
    ELSE LET o == FindAndModifyOperation(collection, filter, options, resolved)
             c1 == SetProp(o.cmdBase, "update", replacement)
         IN Built([o EXCEPT !.cmdBase =
                     configureFindAndModifyCmdBaseUpdateOpts(c1, options)])

\* variant: the operator test of the replace constructor, not negated
FindOneAndUpdateOperation_NotNegated(collection, filter, update, options, resolved) ==
    IF FilterRejected(filter) THEN Threw(InvalidFilter)
    ELSE IF IsNullish(update) \/ TypeOf(update) # "object"
    THEN Threw(InvalidUpdate)
    ELSE IF hasAtomicOperators(update) THEN Threw(UpdateMissingOperators)
    ELSE LET o == FindAndModifyOperation(collection, filter, options, resolved)
             c1 == SetProp(o.cmdBase, "update", update)
             c2 == configureFindAndModifyCmdBaseUpdateOpts(c1, options)
         IN Built([o EXCEPT !.cmdBase =
                     IF Truthy(options.arrayFilters)
                     THEN SetProp(c2, "arrayFilters", options.arrayFilters)
                     ELSE c2])

\* class FindOneAndUpdateOperation: constructor
FindOneAndUpdateOperation(collection, filter, update, options, resolved) ==
    IF FilterRejected(filter) THEN Threw(InvalidFilter)
    ELSE IF IsNullish(update) \/ TypeOf(update) # "object"
    THEN Threw(InvalidUpdate)
    ELSE IF ~hasAtomicOperators(update) THEN Threw(UpdateMissingOperators)
    ELSE LET o == FindAndModifyOperation(collection, filter, options, resolved)
             c1 == SetProp(o.cmdBase, "update", update)
             c2 == configureFindAndModifyCmdBaseUpdateOpts(c1, options)
         IN Built([o EXCEPT !.cmdBase =
                     IF Truthy(options.arrayFilters)
                     THEN SetProp(c2, "arrayFilters", options.arrayFilters)
                     ELSE c2])

\* lowest wire version that takes a hint on findAndModify
MIN_WIRE_HINT == 8
\* lowest wire version that explains findAndModify
MIN_WIRE_EXPLAIN == 4

\* `this.writeConcern?.w === 0`
UnacknowledgedWrite(o) ==
    o.writeConcern.kind # "undefined" /\ o.writeConcern.w = Num(0)

\* the outcome of a synchronous run of execute: the callbacks made, the commands
\* handed to executeCommand, and the operation object as the run leaves it
Callback(o, err) ==
    [cb |-> <<[err |-> err, result |-> Undefined]>>, sent |-> <<>>, this |-> o]
ExecuteCommand(o, cmd) == [cb |-> <<>>, sent |-> <<cmd>>, this |-> o]

\* variant: no `return` after the hint callback, the command is still handed over
execute_NoReturn(o, srv) ==
    LET coll == o.collection
        options == o.options
        cmd == o.cmdBase @@ [findAndModify |-> coll.collectionName, query |-> o.query]
        dec == decorateWithCollation(cmd, coll, options)
    IN IF dec.threw THEN Callback(o, dec.err)
       ELSE LET hintCb ==
                    IF Truthy(options.hint)
                       /\ (UnacknowledgedWrite(o) \/ maxWireVersion(srv) < MIN_WIRE_HINT)
                    THEN Callback(o, HintUnsupported).cb ELSE <<>>
                cmd1 == IF Truthy(options.hint)
                        THEN SetProp(dec.cmd, "hint", options.hint)
                        ELSE dec.cmd
            IN IF o.explain /\ maxWireVersion(srv) < MIN_WIRE_EXPLAIN
               THEN [cb |-> hintCb \o Callback(o, ExplainUnsupported(srv.name)).cb,
                     sent |-> <<>>, this |-> o]
               ELSE [cb |-> hintCb, sent |-> <<cmd1>>, this |-> o]

\* variant: the hint is refused only when both conditions hold
execute_HintAnd(o, srv) ==
    LET coll == o.collection
        options == o.options
        cmd == o.cmdBase @@ [findAndModify |-> coll.collectionName, query |-> o.query]
        dec == decorateWithCollation(cmd, coll, options)
    IN IF dec.threw THEN Callback(o, dec.err)
       ELSE IF Truthy(options.hint)
               /\ (UnacknowledgedWrite(o) /\ maxWireVersion(srv) < MIN_WIRE_HINT)
       THEN Callback(o, HintUnsupported)
       ELSE LET cmd1 == IF Truthy(options.hint)
                        THEN SetProp(dec.cmd, "hint", options.hint)
                        ELSE dec.cmd
            IN IF o.explain /\ maxWireVersion(srv) < MIN_WIRE_EXPLAIN
               THEN Callback(o, ExplainUnsupported(srv.name))
               ELSE ExecuteCommand(o, cmd1)

\* variant: explain refused up to and including the threshold version
execute_ExplainOffByOne(o, srv) ==
    LET coll == o.collection
        options == o.options
        cmd == o.cmdBase @@ [findAndModify |-> coll.collectionName, query |-> o.query]
        dec == decorateWithCollation(cmd, coll, options)
    IN IF dec.threw THEN Callback(o, dec.err)
       ELSE IF Truthy(options.hint)
               /\ (UnacknowledgedWrite(o) \/ maxWireVersion(srv) < MIN_WIRE_HINT)
       THEN Callback(o, HintUnsupported)
       ELSE LET cmd1 == IF Truthy(options.hint)
                        THEN SetProp(dec.cmd, "hint", options.hint)
                        ELSE dec.cmd
            IN IF o.explain /\ maxWireVersion(srv) <= MIN_WIRE_EXPLAIN
               THEN Callback(o, ExplainUnsupported(srv.name))
               ELSE ExecuteCommand(o, cmd1)

\* variant: cmd is this.cmdBase itself, not a copy of it
execute_SharedCmd(o, srv) ==
    LET coll == o.collection
        options == o.options
        cmd == o.cmdBase @@ [findAndModify |-> coll.collectionName, query |-> o.query]
        dec == decorateWithCollation(cmd, coll, options)
    IN IF dec.threw THEN Callback([o EXCEPT !.cmdBase = cmd], dec.err)
       ELSE IF Truthy(options.hint)
               /\ (UnacknowledgedWrite(o) \/ maxWireVersion(srv) < MIN_WIRE_HINT)
       THEN Callback([o EXCEPT !.cmdBase = dec.cmd], HintUnsupported)
       ELSE LET cmd1 == IF Truthy(options.hint)
                        THEN SetProp(dec.cmd, "hint", options.hint)
                        ELSE dec.cmd
            IN IF o.explain /\ maxWireVersion(srv) < MIN_WIRE_EXPLAIN
               THEN Callback([o EXCEPT !.cmdBase = cmd1], ExplainUnsupported(srv.name))
               ELSE ExecuteCommand([o EXCEPT !.cmdBase = cmd1], cmd1)

\* FindAndModifyOperation.execute, up to the call of super.executeCommand
execute(o, srv) ==
    LET coll == o.collection
        options == o.options
        cmd == o.cmdBase @@ [findAndModify |-> coll.collectionName, query |-> o.query]
        dec == decorateWithCollation(cmd, coll, options)
    IN IF dec.threw THEN Callback(o, dec.err)
       ELSE IF Truthy(options.hint)
               /\ (UnacknowledgedWrite(o) \/ maxWireVersion(srv) < MIN_WIRE_HINT)
       THEN Callback(o, HintUnsupported)
       ELSE LET cmd1 == IF Truthy(options.hint)
                        THEN SetProp(dec.cmd, "hint", options.hint)
                        ELSE dec.cmd
            IN IF o.explain /\ maxWireVersion(srv) < MIN_WIRE_EXPLAIN
               THEN Callback(o, ExplainUnsupported(srv.name))
               ELSE ExecuteCommand(o, cmd1)

\* variant: the result is passed on along with the error
commandCallback_Both(err, result) == [err |-> err, result |-> result]

\* the callback execute passes to super.executeCommand
commandCallback(err, result) ==
    IF Truthy(err) THEN [err |-> err, result |-> Undefined]
    ELSE [err |-> Undefined, result |-> result]

---------------------------------------------------------------------------
(* Inputs *)

KeySet == {<<"$", "s", "e", "t">>, <<"a">>, <<"a", "$">>}

\* documents: lists of at most MaxKeys distinct top-level keys
Docs ==
    {d \in UNION {[1..n -> KeySet] : n \in 0..MaxKeys} :
        \A i, j \in DOMAIN d : i # j => d[i] # d[j]}

Filters == {Undefined, Null, Str("x"), Num(1), Arr(0), Obj(<<>>), Obj(<<<<"a">>>>)}

Payloads == {Undefined, Null, Str("x"), Num(1)} \cup {Obj(d) : d \in Docs}

WriteConcern(w) == [kind |-> "writeConcern", w |-> w]
WriteConcerns ==
    {Undefined, WriteConcern(Num(0)), WriteConcern(Num(1)), WriteConcern(Str("majority"))}

Collections == [collectionName : {"coll"}, commandsTakeCollation : BOOLEAN]

\* the wire versions around the two thresholds, and those up to the bound
WireVersions ==
    {MIN_WIRE_EXPLAIN - 1, MIN_WIRE_EXPLAIN, MIN_WIRE_HINT - 1}
        \cup (MIN_WIRE_HINT..MaxWireVersion)
Servers == [name : {"s1", "s2"}, maxWireVersion : WireVersions]

SortSpec == [kind |-> "sort", entries |-> <<<<"b", "desc">>, <<"a", "asc">>>>]

\* the options every variant's constructor reads
BaseOptions ==
    [sort : {Undefined, SortSpec},
     projection : {Undefined, Obj(<<<<"a">>>>)},
     maxTimeMS : {Undefined, Num(0), Num(5)},
     writeConcern : {Undefined, WriteConcern(Num(1))}]

\* the options the replace and update constructors read
UpdateOptions ==
    [returnDocument : {Undefined, Str(ReturnDocument.BEFORE), Str(ReturnDocument.AFTER)},
     upsert : {Undefined, Bool(TRUE), Bool(FALSE)},
     bypassDocumentValidation : {Undefined, Bool(TRUE), Bool(FALSE)},
     arrayFilters : {Undefined, Arr(1)}]

\* the options execute reads
GateOptions ==
    [hint : {Undefined, Obj(<<<<"_", "i", "d">>>>)},
     collation : {Undefined, Obj(<<<<"l", "o", "c">>>>)},
     explain : {Undefined, Bool(TRUE)}]

NoBaseOptions == [k \in {"sort", "projection", "maxTimeMS", "writeConcern"} |-> Undefined]
NoUpdateOptions == [k \in {"returnDocument", "upsert", "bypassDocumentValidation",
                           "arrayFilters"} |-> Undefined]
NoGateOptions == [k \in {"hint", "collation", "explain"} |-> Undefined]

\* options as the constructors see them
BuildOptions == {b @@ u @@ NoGateOptions : b \in BaseOptions, u \in UpdateOptions}

\* options as execute sees them
ExecOptions == {NoBaseOptions @@ NoUpdateOptions @@ g : g \in GateOptions}

BuildCollection == [collectionName |-> "coll", commandsTakeCollation |-> TRUE]

\* the filters and payloads of the requests that are executed
ExecFilters == Filters \ {Obj(<<>>)}
ExecPayloads == {Null, Obj(<<<<"a">>>>), Obj(<<<<"$", "s", "e", "t">>>>)}

NetworkError == [kind |-> "object", name |-> "MongoNetworkError"]
ReplyErrors == {Undefined, NetworkError}
ReplyResults == {Undefined, Obj(<<<<"v", "a", "l", "u", "e">>, <<"o", "k">>>>)}

---------------------------------------------------------------------------
(* Actions *)

Init ==
    /\ args = NoArgs
    /\ op = NoOp
    /\ thrown = NoError
    /\ phase = "Unvalidated"
    /\ calls = 0
    /\ server = NoServer
    /\ sent = <<>>
    /\ cb = <<>>
    /\ reply = NoReply
    /\ prev = NoPrev

\* the end of a `new ...Operation(...)` expression: the object, or the error thrown
Constructed(a, r) ==
    /\ args' = a
    /\ op' = IF r.threw THEN NoOp ELSE r.op
    /\ thrown' = IF r.threw THEN r.err ELSE NoError
    /\ phase' = IF r.threw THEN "Rejected" ELSE "Validated"

NewFindOneAndDelete(coll, filter, options, resolved) ==
    /\ phase = "Unvalidated"
    /\ Constructed([variant |-> "delete", collection |-> coll, filter |-> filter,
                    payload |-> Undefined, options |-> options, resolved |-> resolved],
                   FindOneAndDeleteOperation(coll, filter, options, resolved))
    /\ UNCHANGED <<calls, server, sent, cb, reply, prev>>

NewFindOneAndReplace(coll, filter, replacement, options, resolved) ==
    /\ phase = "Unvalidated"
    /\ Constructed([variant |-> "replace", collection |-> coll, filter |-> filter,
                    payload |-> replacement, options |-> options, resolved |-> resolved],
                   FindOneAndReplaceOperation(coll, filter, replacement, options, resolved))
    /\ UNCHANGED <<calls, server, sent, cb, reply, prev>>

NewFindOneAndUpdate(coll, filter, update, options, resolved) ==
    /\ phase = "Unvalidated"
    /\ Constructed([variant |-> "update", collection |-> coll, filter |-> filter,
                    payload |-> update, options |-> options, resolved |-> resolved],
                   FindOneAndUpdateOperation(coll, filter, update, options, resolved))
    /\ UNCHANGED <<calls, server, sent, cb, reply, prev>>

\* the callbacks the current call made synchronously
LocalCallbacks == IF reply = NoReply THEN cb ELSE SubSeq(cb, 1, Len(cb) - 1)

\* op.execute(srv, session, callback): the caller (first attempt or retry) calls
\* it when no call on op is outstanding
Execute(srv) ==
    /\ op # NoOp
    /\ phase \in {"Validated", "Rejected", "Completed", "Failed"}
    /\ calls < MaxExecutes
    /\ LET r == execute(op, srv)
       IN /\ sent' = r.sent
          /\ cb' = r.cb
          /\ phase' = IF r.sent # <<>> THEN "Dispatched" ELSE "Rejected"
          /\ op' = r.this
    /\ calls' = calls + 1
    /\ server' = srv
    /\ reply' = NoReply
    /\ prev' = IF calls = 0 THEN NoPrev
               ELSE [kind |-> "prev", server |-> server, sent |-> sent,
                     cb |-> LocalCallbacks]
    /\ UNCHANGED <<args, thrown>>

\* executeCommand calls back, once, with (err, result)
ExecuteCommandReply(err, result) ==
    /\ phase = "Dispatched"
    /\ reply = NoReply
    /\ reply' = [kind |-> "reply", err |-> err, result |-> result]
    /\ cb' = Append(cb, commandCallback(err, result))
    /\ phase' = IF Truthy(err) THEN "Failed" ELSE "Completed"
    /\ UNCHANGED <<args, op, thrown, calls, server, sent, prev>>

\* a request is constructed once
Unvalidated == phase = "Unvalidated"

NextBuild ==
    \/ Unvalidated /\ \E f \in Filters, o \in BuildOptions :
          NewFindOneAndDelete(BuildCollection, f, o, Undefined)
    \/ Unvalidated /\ \E f \in Filters, p \in Payloads, o \in BuildOptions :
          NewFindOneAndReplace(BuildCollection, f, p, o, Undefined)
    \/ Unvalidated /\ \E f \in Filters, p \in Payloads, o \in BuildOptions :
          NewFindOneAndUpdate(BuildCollection, f, p, o, Undefined)

Next ==
    \/ Unvalidated /\ \E coll \in Collections, f \in ExecFilters, o \in ExecOptions,
                         w \in WriteConcerns :
          NewFindOneAndDelete(coll, f, o, w)
    \/ Unvalidated /\ \E coll \in Collections, f \in ExecFilters, p \in ExecPayloads,
                         o \in ExecOptions, w \in WriteConcerns :
          NewFindOneAndReplace(coll, f, p, o, w)
    \/ Unvalidated /\ \E coll \in Collections, f \in ExecFilters, p \in ExecPayloads,
                         o \in ExecOptions, w \in WriteConcerns :
          NewFindOneAndUpdate(coll, f, p, o, w)
    \/ \E srv \in Servers : Execute(srv)
    \/ \E e \in ReplyErrors, r \in ReplyResults : ExecuteCommandReply(e, r)

\* executeCommand calls back
Reply == \E e \in ReplyErrors, r \in ReplyResults : ExecuteCommandReply(e, r)

\* construction alone, over the options the constructors read
SpecBuild == Init /\ [][NextBuild]_vars

\* construction, execution and retries
Spec == Init /\ [][Next]_vars

\* executeCommand eventually calls back
FairSpec == Spec /\ WF_vars(Reply)

---------------------------------------------------------------------------
(* The stages of one execute() call, read off the state *)

\* an execute() call has been made and `server` is its server
Called == calls > 0

HintRequested == Truthy(op.options.hint)
ExplainRequested == Truthy(op.options.explain)
Unacknowledged == op.writeConcern.kind = "writeConcern" /\ op.writeConcern.w = Num(0)

CollationFailed == decorateWithCollation(<<>>, op.collection, op.options).threw
HintFailed == HintRequested /\ (Unacknowledged \/ server.maxWireVersion < 8)
ExplainFailed == ExplainRequested /\ server.maxWireVersion < 4

\* the call ended in exactly this local error, and nothing was handed over
RejectedWith(err) ==
    /\ sent = <<>>
    /\ LocalCallbacks = <<[err |-> err, result |-> Undefined]>>

\* the call handed exactly one command to executeCommand, with no local callback
Dispatched == Len(sent) = 1 /\ LocalCallbacks = <<>>

---------------------------------------------------------------------------
(* Claims *)

\* C1: a command reaches executeCommand only if collation decoration, the hint
\* check and the explain check all passed; when one of them fails nothing is
\* handed over and the callback gets the error of the first failing stage.
C1_FailFast ==
    Called =>
        /\ sent # <<>> => ~CollationFailed /\ ~HintFailed /\ ~ExplainFailed
        /\ CollationFailed => RejectedWith(CollationConflict)
        /\ ~CollationFailed /\ HintFailed => RejectedWith(HintUnsupported)
        /\ ~CollationFailed /\ ~HintFailed /\ ExplainFailed
              => RejectedWith(ExplainUnsupported(server.name))
        /\ ~CollationFailed /\ ~HintFailed /\ ~ExplainFailed => Dispatched

\* C1 witness: all three stages fail in one call and the first one is reported
C1_Witness ==
    /\ Called /\ CollationFailed /\ HintFailed /\ ExplainFailed
    /\ RejectedWith(CollationConflict)

\* C2 as stated: with a hint requested, execute fails with the hint error when the
\* write is unacknowledged or the wire version is below 8, and otherwise the
\* dispatched command carries the hint; a dispatched command has a hint only when
\* one was requested and accepted.
C2_Original ==
    Called =>
        /\ HintRequested /\ (Unacknowledged \/ server.maxWireVersion < 8)
              => RejectedWith(HintUnsupported)
        /\ HintRequested /\ ~Unacknowledged /\ server.maxWireVersion >= 8
              => Dispatched /\ Has(sent[1], "hint") /\ sent[1].hint = op.options.hint
        /\ \A i \in DOMAIN sent :
              Has(sent[i], "hint") =>
                  /\ HintRequested /\ ~Unacknowledged /\ server.maxWireVersion >= 8
                  /\ sent[i].hint = op.options.hint

\* C2, amended: the same, for the calls whose collation decoration did not fail
\* (a collation failure is reported first and the hint check never runs).
C2_HintGate ==
    Called =>
        /\ ~CollationFailed /\ HintRequested
             /\ (Unacknowledged \/ server.maxWireVersion < 8)
              => RejectedWith(HintUnsupported)
        /\ ~CollationFailed /\ HintRequested /\ ~Unacknowledged
             /\ server.maxWireVersion >= 8
              => Dispatched /\ Has(sent[1], "hint") /\ sent[1].hint = op.options.hint
        /\ CollationFailed /\ HintRequested => RejectedWith(CollationConflict)
        /\ \A i \in DOMAIN sent :
              Has(sent[i], "hint") =>
                  /\ HintRequested /\ ~Unacknowledged /\ server.maxWireVersion >= 8
                  /\ sent[i].hint = op.options.hint

\* C2 witness: an unacknowledged write with a hint, rejected on a server of wire
\* version 8 or more
C2_Witness ==
    /\ Called /\ HintRequested /\ Unacknowledged /\ ~CollationFailed
    /\ server.maxWireVersion >= 8
    /\ RejectedWith(HintUnsupported)

\* C3 as stated: explain requested below wire version 4 always fails with the
\* explain error naming the server, with or without a hint; at 4 or above the
\* explain check rejects nothing.
C3_Original ==
    Called =>
        /\ ExplainRequested /\ server.maxWireVersion < 4
              => RejectedWith(ExplainUnsupported(server.name))
        /\ ExplainRequested /\ server.maxWireVersion >= 4
              => \A i \in DOMAIN cb : \A n \in {"s1", "s2"} :
                     cb[i].err # ExplainUnsupported(n)

\* C3, amended: explain requested below wire version 4 fails with the explain
\* error naming the server when collation decoration passed and no hint is
\* requested; with a hint requested too the hint error is reported instead (the
\* hint check runs first and below 4 it always fails); at 4 or above the explain
\* check rejects nothing.
C3_ExplainGate ==
    Called =>
        /\ ExplainRequested /\ server.maxWireVersion < 4
             /\ ~CollationFailed /\ ~HintRequested
              => RejectedWith(ExplainUnsupported(server.name))
        /\ ExplainRequested /\ server.maxWireVersion < 4
             /\ ~CollationFailed /\ HintRequested
              => RejectedWith(HintUnsupported)
        /\ ExplainRequested /\ server.maxWireVersion >= 4
              => \A i \in DOMAIN cb : \A n \in {"s1", "s2"} :
                     cb[i].err # ExplainUnsupported(n)

\* C3 witness: explain without a hint, rejected below wire version 4
C3_Witness ==
    /\ Called /\ ExplainRequested /\ ~HintRequested /\ server.maxWireVersion < 4
    /\ RejectedWith(ExplainUnsupported(server.name))

---------------------------------------------------------------------------
(* Construction *)

Constructing == args # NoArgs

\* the filter is null, undefined, or not an object (typeof, so an array counts as
\* an object)
BadFilter == args.filter.kind \in {"undefined", "null", "string", "number", "boolean"}
BadPayload == args.payload.kind \in {"undefined", "null", "string", "number", "boolean"}

\* the payload has a top-level key that starts with '$'
PayloadHasOperatorKey ==
    \E i \in 1..Len(args.payload.keys) :
        Len(args.payload.keys[i]) > 0 /\ args.payload.keys[i][1] = "$"

\* the constructor threw err: no operation object exists
Rejected(err) == thrown = err /\ op = NoOp

\* the constructor returned an operation
Succeeded == thrown = NoError /\ op # NoOp

\* C4: for every variant, payload and options, a null, undefined or non-object
\* filter makes the constructor fail with the invalid-filter error, whatever else
\* is wrong with the request; no operation (and no command base) exists and
\* nothing is ever executed or called back for it.
C4_InvalidFilter ==
    Constructing /\ BadFilter =>
        /\ Rejected(InvalidFilter)
        /\ phase = "Rejected"
        /\ calls = 0 /\ sent = <<>> /\ cb = <<>>

\* C4 witness: a replace request whose filter and replacement are both invalid
C4_Witness ==
    /\ Constructing /\ args.variant = "replace" /\ BadFilter /\ BadPayload
    /\ Rejected(InvalidFilter)

\* C5: with a valid filter and an object payload, replace fails with the
\* replacement-has-operators error exactly when the replacement has a top-level
\* '$' key, update fails with the update-missing-operators error exactly when
\* the update has none, and otherwise construction succeeds with update set to
\* the payload.
C5_OperatorLegality ==
    Constructing /\ ~BadFilter /\ args.payload.kind = "object" =>
        /\ args.variant = "replace" =>
              IF PayloadHasOperatorKey THEN Rejected(ReplacementHasOperators)
              ELSE Succeeded /\ Has(op.cmdBase, "update")
                   /\ op.cmdBase.update = args.payload
        /\ args.variant = "update" =>
              IF ~PayloadHasOperatorKey THEN Rejected(UpdateMissingOperators)
              ELSE Succeeded /\ Has(op.cmdBase, "update")
                   /\ op.cmdBase.update = args.payload

\* C5 witness: an update whose operator key is not the first key is accepted
C5_Witness ==
    /\ Constructing /\ args.variant = "update" /\ args.payload.kind = "object"
    /\ Len(args.payload.keys) = 2 /\ args.payload.keys[1][1] # "$"
    /\ PayloadHasOperatorKey /\ Succeeded

\* C6 as stated: with a valid filter, a null or non-object replacement fails with
\* the replacement-has-operators error and a null or non-object update with the
\* update-missing-operators error.
C6_Original ==
    Constructing /\ ~BadFilter /\ BadPayload =>
        /\ args.variant = "replace" => Rejected(ReplacementHasOperators)
        /\ args.variant = "update" => Rejected(UpdateMissingOperators)

\* C6, amended: with a valid filter, a null or non-object replacement fails with
\* the invalid-replacement error ("Replacement parameter must be an object") and a
\* null or non-object update with the invalid-update error ("Update parameter
\* must be an object"), neither of which is the operator-legality error.
C6_InvalidPayload ==
    Constructing /\ ~BadFilter /\ BadPayload =>
        /\ args.variant = "replace" =>
              Rejected(InvalidReplacement) /\ thrown # ReplacementHasOperators
        /\ args.variant = "update" =>
              Rejected(InvalidUpdate) /\ thrown # UpdateMissingOperators

\* C6 witness: an update request with a valid filter and a string as update
C6_Witness ==
    /\ Constructing /\ args.variant = "update" /\ ~BadFilter
    /\ args.payload.kind = "string" /\ Rejected(InvalidUpdate)

\* C7: in every constructed operation, delete has remove = true and no update,
\* replace and update have remove = false and update equal to the payload, and
\* arrayFilters is there exactly for an update that was given arrayFilters.
C7_VariantFields ==
    Constructing /\ Succeeded =>
        /\ (op.cmdBase.remove = TRUE) # Has(op.cmdBase, "update")
        /\ args.variant = "delete" =>
              op.cmdBase.remove = TRUE /\ ~Has(op.cmdBase, "update")
        /\ args.variant \in {"replace", "update"} =>
              /\ op.cmdBase.remove = FALSE
              /\ Has(op.cmdBase, "update") /\ op.cmdBase.update = args.payload
        /\ Has(op.cmdBase, "arrayFilters") <=>
              args.variant = "update" /\ args.options.arrayFilters.kind = "array"
        /\ Has(op.cmdBase, "arrayFilters") =>
              op.cmdBase.arrayFilters = args.options.arrayFilters

\* C7 witness: a replace that was given arrayFilters and carries none
C7_Witness ==
    /\ Constructing /\ Succeeded /\ args.variant = "replace"
    /\ args.options.arrayFilters.kind = "array"
    /\ ~Has(op.cmdBase, "arrayFilters")

\* C8: replace and update have new = true exactly when returnDocument is 'after'
\* and upsert = true exactly when the upsert option is true; delete always has
\* new = false and upsert = false.
C8_NewAndUpsert ==
    Constructing /\ Succeeded =>
        /\ args.variant \in {"replace", "update"} =>
              /\ op.cmdBase.new = (args.options.returnDocument = Str("after"))
              /\ op.cmdBase.upsert = (args.options.upsert = Bool(TRUE))
        /\ args.variant = "delete" =>
              op.cmdBase.new = FALSE /\ op.cmdBase.upsert = FALSE

\* C8 witness: a delete given returnDocument 'after' and upsert true
C8_Witness ==
    /\ Constructing /\ Succeeded /\ args.variant = "delete"
    /\ args.options.returnDocument = Str("after")
    /\ args.options.upsert = Bool(TRUE)
    /\ op.cmdBase.new = FALSE /\ op.cmdBase.upsert = FALSE

---------------------------------------------------------------------------
(* Execution and retries *)

\* the properties execute adds to its own copy of cmdBase
PerCallFields == {"findAndModify", "query", "hint", "collation"}

\* a dispatched command is cmdBase, untouched, plus the per-call fields
CopyOfCmdBase(cmd) ==
    /\ \A k \in DOMAIN op.cmdBase : Has(cmd, k) /\ cmd[k] = op.cmdBase[k]
    /\ DOMAIN cmd \ DOMAIN op.cmdBase \subseteq PerCallFields
    /\ DOMAIN op.cmdBase \cap PerCallFields = {}
    /\ cmd.query = op.query
    /\ cmd.findAndModify = op.collection.collectionName

\* the current call and the one before it agree
SameOutcome ==
    /\ prev.server.maxWireVersion = server.maxWireVersion =>
          /\ prev.sent = sent
          /\ (prev.cb = <<>>) <=> (LocalCallbacks = <<>>)
    /\ prev.server = server => prev.cb = LocalCallbacks

\* C9: execute leaves the operation (cmdBase, query, options) as it found it, hint
\* and collation go only into the per-call copy of the command, and so a repeated
\* execute against the same wire version and write concern hands over the same
\* command and accepts or rejects alike (with the same error on the same server).
C9_ExecuteFrame ==
    /\ [][op # NoOp => op' = op]_vars
    /\ [](Called => \A i \in DOMAIN sent : CopyOfCmdBase(sent[i]))
    /\ [](Called /\ prev # NoPrev => SameOutcome)

\* C9 witness: a retry on the same server hands over the same command, hint and
\* collation included
C9_Witness ==
    /\ calls = 2 /\ prev # NoPrev /\ prev.server = server
    /\ Len(sent) = 1 /\ prev.sent = sent
    /\ Has(sent[1], "hint") /\ Has(sent[1], "collation")
    /\ ~Has(op.cmdBase, "hint") /\ ~Has(op.cmdBase, "collation")

Rank(p) ==
    CASE p = "Unvalidated" -> 0
      [] p = "Validated" -> 1
      [] p = "Dispatched" -> 2
      [] p \in {"Rejected", "Completed", "Failed"} -> 3

\* one step of a request: forward within a call, nothing after a terminal state
\* but a new call on an operation that exists
Forward ==
    /\ calls' = calls =>
          /\ Rank(phase') >= Rank(phase)
          /\ Rank(phase) = 3 => phase' = phase /\ cb' = cb /\ sent' = sent
    /\ calls' # calls =>
          /\ calls' = calls + 1
          /\ op # NoOp
          /\ phase \in {"Validated", "Rejected", "Completed", "Failed"}
    /\ phase = "Rejected" /\ op = NoOp => UNCHANGED vars

\* where one call stands, and what its callback got
CallShape ==
    /\ phase \in {"Dispatched", "Rejected", "Completed", "Failed"}
    /\ phase = "Dispatched" => cb = <<>> /\ Len(sent) = 1 /\ reply = NoReply
    /\ phase = "Rejected" =>
          /\ sent = <<>> /\ Len(cb) = 1 /\ cb[1].result = Undefined
          /\ cb[1].err \in {CollationConflict, HintUnsupported,
                            ExplainUnsupported(server.name)}
    /\ phase = "Completed" =>
          /\ Len(sent) = 1 /\ reply # NoReply /\ reply.err = Undefined
          /\ cb = <<[err |-> Undefined, result |-> reply.result]>>
    /\ phase = "Failed" =>
          /\ Len(sent) = 1 /\ reply # NoReply /\ reply.err # Undefined
          /\ cb = <<[err |-> reply.err, result |-> Undefined]>>

\* C10: a request only moves forward through Unvalidated, Validated or Rejected,
\* Dispatched or Rejected, Completed or Failed; a call's callback runs exactly once,
\* with a local rejection, with executeCommand's error as given or with its result
\* as given; nothing runs after a terminal state; and a dispatched call ends,
\* executeCommand calling back once and eventually.
C10_Lifecycle ==
    /\ [][Forward]_vars
    /\ [](Called => CallShape)
    /\ [](~Called => cb = <<>> /\ sent = <<>>)
    /\ (phase = "Dispatched") ~> (phase \in {"Completed", "Failed"})

\* C10 witness: a call that was dispatched and failed with executeCommand's error
C10_Witness ==
    /\ Called /\ phase = "Failed" /\ reply # NoReply
    /\ cb = <<[err |-> NetworkError, result |-> Undefined]>>

====
